---- MODULE Spec2Model ----
(***************************************************************************)
(* Model of the KieloApp grammar-correction pipeline.                      *)
(*                                                                         *)
(*   Spec        WordGrammarChecker.process_text: the fan-out of           *)
(*               n_responses oracle calls behind asyncio.Semaphore, the    *)
(*               join, the compaction and the extraction, followed by the  *)
(*               numbering of the results in app.process_sections.         *)
(*   SpecFilter  GrammarDiscriminator.filter_corrections: the call of      *)
(*               validate_corrections and the threshold policy.            *)
(*   SpecExtract WordGrammarChecker.extract_corrections on every shape of  *)
(*               raw oracle output.                                        *)
(*   SpecBatch   GrammarDiscriminator.batch_validate.                      *)
(*   SpecApp     app.process_sections from the request to the construction *)
(*               of the checker.                                           *)
(*   SpecOverlap two overlapping process_text runs on one checker.         *)
(*   SpecLive    Spec with the fairness of the event loop and of the       *)
(*               oracle.                                                   *)
(***************************************************************************)
EXTENDS Integers, Sequences, FiniteSets, TLC

\* ------------------------------------------------------------------ bounds
MaxN == 5          \* largest n_responses explored
MaxK == 2          \* largest max_concurrent_requests explored
MaxCorr == 4       \* longest correction list passed to filter_corrections
MaxValid == 4      \* longest foreign list the discriminator answers with
MaxElems == 2      \* longest corrections array of a payload
MaxBatches == 2    \* most correction batches passed to batch_validate
MaxTitles == 2     \* most selected titles of a request
MaxOverlapN == 2   \* largest n_responses of a checker shared by two runs

\* ------------------------------------------------------- program constants
DefaultMinQuality == 70   \* filter_corrections(min_quality_score=70)
TestMinQuality == 80      \* the threshold test_discriminator_real passes
FallbackQuality == 50     \* quality_score of the fallback result

VARIABLES
    \* WordGrammarChecker
    n_responses,              \* self.n_responses
    max_concurrent_requests,  \* self.max_concurrent_requests
    semaphore,                \* value of self.semaphore (free permits)
    waiters,                  \* tasks blocked in semaphore.acquire, FIFO
    call,                     \* per slot: position of its make_api_call task
    returned,                 \* per slot: what make_api_call returned
    order,                    \* slots in the order their calls settled
    pc,                       \* position of process_text / process_sections
    responses,                \* process_text: compacted list of responses
    results_per_response,     \* process_text: list of (corrections, suggestion)
    output,                   \* process_sections: the "results" list
    \* GrammarDiscriminator.filter_corrections
    fpc,                      \* position of filter_corrections
    corrections,              \* argument corrections
    min_quality_score,        \* argument min_quality_score
    reply,                    \* what the discriminator oracle call gave
    validation_result,        \* what validate_corrections returned
    filtered,                 \* returned valid_corrections
    metadata,                 \* returned metadata
    \* WordGrammarChecker.extract_corrections on its own
    xpc,                      \* position of extract_corrections
    raw,                      \* argument response_model
    extracted,                \* returned (corrections, suggestion)
    \* GrammarDiscriminator.batch_validate
    bpc,                      \* position of batch_validate
    correction_batches,       \* argument correction_batches
    original_texts,           \* argument original_texts: given or None, length
    batch_reply,              \* per task: what its discriminator call gave
    task_result,              \* per task: result or exception of gather
    filtered_results,         \* returned list of (corrections, metadata)
    \* app.process_sections up to the construction of the checker
    apc,                      \* position of the handler
    data,                     \* the ProcessSectionsRequest
    status,                   \* HTTP status of the answer, 0 while none
    checker,                  \* the WordGrammarChecker the handler built
    \* one WordGrammarChecker shared by overlapping process_text runs
    chosen_model,             \* self.chosen_model
    text_data,                \* self.text_data
    instance,                 \* n_responses, capacity, semaphore and its queue
    invocation,               \* per run: position, text, payload, its calls
    requests                  \* oracle requests sent so far, in order

pvars == <<n_responses, max_concurrent_requests, semaphore, waiters, call,
           returned, order, pc, responses, results_per_response, output>>

fvars == <<fpc, corrections, min_quality_score, reply, validation_result,
           filtered, metadata>>

xvars == <<xpc, raw, extracted>>

bvars == <<bpc, correction_batches, original_texts, batch_reply, task_result,
           filtered_results>>

avars == <<apc, data, status, checker>>

ovars == <<chosen_model, text_data, instance, invocation, requests>>

vars == <<pvars, fvars, xvars, bvars, avars, ovars>>

\* what the actions of one component leave alone
not_pvars == <<fvars, xvars, bvars, avars, ovars>>
not_fvars == <<pvars, xvars, bvars, avars, ovars>>
not_xvars == <<pvars, fvars, bvars, avars, ovars>>
not_bvars == <<pvars, fvars, xvars, avars, ovars>>
not_avars == <<pvars, fvars, xvars, bvars, ovars>>
not_ovars == <<pvars, fvars, xvars, bvars, avars>>

\* ------------------------------------------------------- sequence helpers
Range(s) == {s[i] : i \in 1..Len(s)}

\* ------------------------------------------------------------ oracle model
Slots == 1..n_responses

\* make_api_call returns None when the oracle call raised
None == [id |-> 0, content |-> "None"]
Pending == [id |-> 0, content |-> "pending"]

\* Shapes of choices[0].message.content that extract_corrections tells apart
ContentShapes ==
    {"no_choices", "null", "not_json", "json_non_object",
     "props_non_object", "no_props", "ok"}

\* Shapes the oracle answers with in the process_text runs
OracleContents == {"ok", "not_json", "null"}

\* The response object the oracle gives to the call of slot i
Response(i, c) == [id |-> i, content |-> c]

\* The "properties" member of a well-formed answer: the answer to call i
\* holds one correction and a suggestion of its own.
Props(r) == [corrections |-> <<r.id>>, suggestion |-> r.id]

\* extract_corrections: raises on everything json.loads or .get cannot take
\* other than a JSONDecodeError
extract_raises(r) ==
    r.content \in {"null", "json_non_object", "props_non_object"}

\* (suggestion 0 stands for the empty string)
extract_corrections(r) ==
    IF r = None \/ r.content \in {"no_choices", "not_json", "no_props"}
    THEN [corrections |-> <<>>, suggestion |-> 0]
    ELSE Props(r)

\* ------------------------------------------------------------- semaphore
\* asyncio.Semaphore.acquire returns at once iff the counter is positive
SemMutFree(s) == TRUE
SemFree(s) == s > 0

InFlight == {i \in Slots : call[i] = "inflight"}
Settled == {i \in Slots : call[i] = "settled"}

\* asyncio.gather(*calls) completes when every awaitable has completed
GatherMutFirstFailure ==
    \/ \A i \in Slots : call[i] = "settled"
    \/ \E i \in Slots : call[i] = "settled" /\ returned[i] = None
GatherDone == \A i \in Slots : call[i] = "settled"

\* gather's result list: slot order, whatever the completion order
GatheredMutCompletionOrder == [k \in 1..Len(order) |-> returned[order[k]]]
Gathered == [i \in 1..n_responses |-> returned[i]]

\* responses = [r for r in responses if r is not None]
IsResponse(r) == r # None
CompactMutPad(rs) == rs
Compact(rs) == SelectSeq(rs, IsResponse)

\* enumerate(results_per_response, start=1) in process_sections
EnumerateMutAnnotate(res) ==
    [k \in 1..Len(res) |->
        [response_number |-> k,
         corrections |-> res[k].corrections,
         suggestion |-> res[k].suggestion + 100]]
EnumerateMutZero(res) ==
    [k \in 1..Len(res) |->
        [response_number |-> k - 1,
         corrections |-> res[k].corrections,
         suggestion |-> res[k].suggestion]]
Enumerate(res) ==
    [k \in 1..Len(res) |->
        [response_number |-> k,
         corrections |-> res[k].corrections,
         suggestion |-> res[k].suggestion]]


\* ============================================================ discriminator
\* JSON values as far as validate_corrections and filter_corrections tell
\* them apart: t is the kind, n a number, l a list, s a string.
JAbsent == [t |-> "absent", n |-> 0, l |-> <<>>, s |-> ""]
JNull == [t |-> "null", n |-> 0, l |-> <<>>, s |-> ""]
JDict == [t |-> "dict", n |-> 0, l |-> <<>>, s |-> ""]
JNum(v) == [t |-> "num", n |-> v, l |-> <<>>, s |-> ""]
JStr(x) == [t |-> "str", n |-> 0, l |-> <<>>, s |-> x]
JList(x) == [t |-> "list", n |-> 0, l |-> x, s |-> ""]

RECURSIVE SeqOfSet(_)
\* the members of a set of numbers, ascending
SeqOfSet(S) ==
    IF S = {} THEN <<>>
    ELSE LET m == CHOOSE x \in S : \A y \in S : x <= y
         IN <<m>> \o SeqOfSet(S \ {m})

\* The correction lists passed in: n distinct corrections, 1..n
CorrectionLists == {[i \in 1..n |-> i] : n \in 0..MaxCorr}

\* 0 is a correction that was never submitted
ForeignLists == UNION {[1..k -> {0, 1}] : k \in 0..MaxValid}

\* valid_corrections as the oracle may give it: any selection of the
\* submitted corrections, or a list with foreign or repeated entries
OracleValid(cs) ==
    {JAbsent, JNull, JNum(1), JDict}
    \cup {JList(SeqOfSet(S)) : S \in SUBSET Range(cs)}
    \cup {JList(x) : x \in ForeignLists}

OracleRejected == {JAbsent, JNull, JList(<<>>), JList(<<0>>)}

Scores == {-1, 0, 40, 69, 70, 100, 101}

OracleScore == {JAbsent, JNull, JStr("high")} \cup {JNum(v) : v \in Scores}

OracleSummary == {JAbsent, JStr("oracle summary")}

\* Outcomes of client.chat.completions.create and of json.loads on its
\* content: the call raises, the content is no JSON, the JSON is no object,
\* or it is an object with these members
NoMembers == [vc |-> JAbsent, rc |-> JAbsent, qs |-> JAbsent, summary |-> JAbsent]
OracleReplies(cs) ==
    {[kind |-> k] @@ NoMembers : k \in {"raise", "not_json", "non_object"}}
    \cup {[kind |-> "object", vc |-> v, rc |-> r, qs |-> q, summary |-> m] :
            v \in OracleValid(cs), r \in OracleRejected,
            q \in OracleScore, m \in OracleSummary}

\* len(x) raises TypeError
NoLen(j) == j.t \in {"null", "num"}

\* dict.get(key, default)
Get(j, default) == IF j.t = "absent" THEN default ELSE j

\* the except branch of validate_corrections
FallbackMutSilent(cs) ==
    [valid_corrections |-> JList(cs),
     rejected_corrections |-> JList(<<>>),
     quality_score |-> JNum(0),
     summary |-> JStr(""),
     error |-> TRUE]
Fallback(cs) ==
    [valid_corrections |-> JList(cs),
     rejected_corrections |-> JList(<<>>),
     quality_score |-> JNum(FallbackQuality),
     summary |-> JStr("Validation failed. Returned all corrections."),
     error |-> TRUE]

\* The try block fails on an exception of the call, of json.loads, of .get on
\* a non-object and of len() in the log line
validate_fails(rp) ==
    \/ rp.kind # "object"
    \/ NoLen(Get(rp.vc, JList(<<>>)))
    \/ NoLen(Get(rp.rc, JList(<<>>)))

validate_corrections(cs, rp) ==
    IF validate_fails(rp) THEN Fallback(cs)
    ELSE [valid_corrections |-> rp.vc,
          rejected_corrections |-> rp.rc,
          quality_score |-> rp.qs,
          summary |-> rp.summary,
          error |-> FALSE]

\* len(x) of a value that has one
PyLen(j) == IF j.t = "list" THEN Len(j.l) ELSE 0

\* max(1, len(valid_corrections) // 2)
KeepCountMutNoFloor(j) == PyLen(j) \div 2
KeepCount(j) == IF PyLen(j) \div 2 > 1 THEN PyLen(j) \div 2 ELSE 1

\* valid_corrections[:k]
Prefix(j, k) == JList(SubSeq(j.l, 1, IF k < Len(j.l) THEN k ELSE Len(j.l)))

\* quality_score < min_quality_score raises TypeError unless a number
compare_raises(vr) == Get(vr.quality_score, JNum(0)).t # "num"

BelowThresholdMutInclusive(vr, threshold) ==
    Get(vr.quality_score, JNum(0)).n <= threshold
BelowThreshold(vr, threshold) ==
    Get(vr.quality_score, JNum(0)).n < threshold

\* slicing raises on a dict
slice_raises(vr) == Get(vr.valid_corrections, JList(<<>>)).t = "dict"

filter_raises(vr, threshold) ==
    \/ compare_raises(vr)
    \/ BelowThreshold(vr, threshold) /\ slice_raises(vr)

\* filter_corrections, lines 149-156: the corrections returned
filter_valid(vr, threshold) ==
    LET valid == Get(vr.valid_corrections, JList(<<>>)) IN
    IF BelowThreshold(vr, threshold)
    THEN Prefix(valid, KeepCount(valid))
    ELSE valid

\* filter_corrections, lines 159-167
filter_metadata(cs, vr, threshold) ==
    [discriminator_used |-> TRUE,
     quality_score |-> Get(vr.quality_score, JNum(0)),
     original_count |-> Len(cs),
     filtered_count |-> PyLen(filter_valid(vr, threshold)),
     rejected_count |-> PyLen(Get(vr.rejected_corrections, JList(<<>>))),
     summary |-> Get(vr.summary, JStr("")),
     rejected_reasons |-> Get(vr.rejected_corrections, JList(<<>>))]

NoResult == [valid_corrections |-> JAbsent, rejected_corrections |-> JAbsent,
             quality_score |-> JAbsent, summary |-> JAbsent, error |-> FALSE]
NoReply == [kind |-> "none"] @@ NoMembers
NoMetadata ==
    [discriminator_used |-> FALSE, quality_score |-> JAbsent,
     original_count |-> 0, filtered_count |-> 0, rejected_count |-> 0,
     summary |-> JAbsent, rejected_reasons |-> JAbsent]

\* filter_corrections is not running
FIdle ==
    /\ fpc = "idle"
    /\ corrections = <<>>
    /\ min_quality_score = DefaultMinQuality
    /\ reply = NoReply
    /\ validation_result = NoResult
    /\ filtered = JAbsent
    /\ metadata = NoMetadata

\* filter_corrections(corrections, text, min_quality_score) is called
FInit ==
    /\ fpc = "called"
    /\ corrections \in CorrectionLists
    /\ min_quality_score \in {DefaultMinQuality, TestMinQuality}
    /\ reply = NoReply
    /\ validation_result = NoResult
    /\ filtered = JAbsent
    /\ metadata = NoMetadata

\* await self.validate_corrections(corrections, original_text)
filter_corrections_validate ==
    /\ fpc = "called"
    /\ \E rp \in OracleReplies(corrections) :
         /\ reply' = rp
         /\ validation_result' = validate_corrections(corrections, rp)
    /\ fpc' = "validated"
    /\ UNCHANGED <<corrections, min_quality_score, filtered, metadata>>
    /\ UNCHANGED not_fvars

\* the rest of filter_corrections: threshold, metadata, return
filter_corrections_return ==
    /\ fpc = "validated"
    /\ IF filter_raises(validation_result, min_quality_score)
       THEN /\ fpc' = "raised"
            /\ UNCHANGED <<filtered, metadata>>
       ELSE /\ fpc' = "returned"
            /\ filtered' = filter_valid(validation_result, min_quality_score)
            /\ metadata' = filter_metadata(corrections, validation_result,
                                           min_quality_score)
    /\ UNCHANGED <<corrections, min_quality_score, reply, validation_result>>
    /\ UNCHANGED not_fvars

FNext ==
    \/ filter_corrections_validate
    \/ filter_corrections_return


\* ======================================================= extract_corrections
\* The raw oracle output in detail: content is one of ContentShapes ("None"
\* for an absent response); for content "ok" the payload is an object whose
\* "properties" member is an object with these members (extra: a member
\* other than corrections and suggestion is present).
\* Elements of a corrections array: an object with the three string fields,
\* the same with null fields, one with a fourth field, one lacking a field,
\* and a value that is no object
ElementShapes ==
    {"record", "record_nulls", "extra_field", "missing_field", "non_object"}

PayloadCorrections ==
    {JAbsent, JNull, JNum(1), JStr("abc"), JDict}
    \cup {JList(x) : x \in UNION {[1..k -> ElementShapes] : k \in 0..MaxElems}}

PayloadSuggestion == {JAbsent, JNull, JNum(1), JStr("suggestion"), JList(<<>>)}

NoPayload == [corrections |-> JAbsent, suggestion |-> JAbsent, extra |-> FALSE]

RawOutputs ==
    {[content |-> c] @@ NoPayload : c \in (ContentShapes \ {"ok"}) \cup {"None"}}
    \cup {[content |-> "ok", corrections |-> c, suggestion |-> g, extra |-> e] :
            c \in PayloadCorrections, g \in PayloadSuggestion, e \in BOOLEAN}

EmptyExtract == [corrections |-> JList(<<>>), suggestion |-> JStr("")]

\* what extract_corrections returns when it returns: props.get(key, default)
\* of whatever the payload holds
extract_payload(r) ==
    IF r.content \in {"None", "no_choices", "not_json", "no_props"}
    THEN EmptyExtract
    ELSE [corrections |-> Get(r.corrections, JList(<<>>)),
          suggestion |-> Get(r.suggestion, JStr(""))]

NoRaw == [content |-> "none"] @@ NoPayload

XIdle ==
    /\ xpc = "idle"
    /\ raw = NoRaw
    /\ extracted = EmptyExtract

\* extract_corrections(response_model) is called
XInit ==
    /\ xpc = "called"
    /\ raw \in RawOutputs
    /\ extracted = EmptyExtract

\* extract_corrections: returns, or is left by the exception that is no
\* JSONDecodeError
extract_corrections_run ==
    /\ xpc = "called"
    /\ IF extract_raises(raw)
       THEN /\ xpc' = "raised"
            /\ UNCHANGED extracted
       ELSE /\ xpc' = "returned"
            /\ extracted' = extract_payload(raw)
    /\ UNCHANGED raw
    /\ UNCHANGED not_xvars

XNext == extract_corrections_run


\* ============================================================ batch_validate
MinOf(a, b) == IF a < b THEN a ELSE b

\* zip(correction_batches, original_texts): one task per pair
TaskCount(bs, texts) ==
    IF texts.given THEN MinOf(Len(bs), texts.n) ELSE Len(bs)

\* The discriminator outcomes played to the tasks of a batch run: the call
\* raises, all corrections approved with a high or a low score, a null
\* score, and an object as valid_corrections with a low score
BatchReplies(cs) ==
    {[kind |-> "raise"] @@ NoMembers}
    \cup {[kind |-> "object", vc |-> JList(cs), rc |-> JList(<<>>), qs |-> q,
           summary |-> JStr("oracle summary")] : q \in {JNum(100), JNum(40), JNull}}
    \cup {[kind |-> "object", vc |-> JDict, rc |-> JList(<<>>), qs |-> JNum(40),
           summary |-> JStr("oracle summary")]}

PendingTask == [state |-> "pending", corrections |-> JAbsent, metadata |-> NoMetadata]

\* what gather(..., return_exceptions=True) holds for a task running
\* filter_corrections(corrections, text) on the reply rp
TaskOutcome(cs, rp) ==
    LET vr == validate_corrections(cs, rp) IN
    IF filter_raises(vr, DefaultMinQuality)
    THEN [state |-> "exception", corrections |-> JAbsent, metadata |-> NoMetadata]
    ELSE [state |-> "result",
          corrections |-> filter_valid(vr, DefaultMinQuality),
          metadata |-> filter_metadata(cs, vr, DefaultMinQuality)]

\* the entry batch_validate puts in place of an exception
batch_fallbackMutFirst(bs, i) ==
    [corrections |-> JList(bs[1]),
     metadata |-> [error |-> TRUE, discriminator_used |-> FALSE]]
batch_fallback(bs, i) ==
    [corrections |-> JList(bs[i]),
     metadata |-> [error |-> TRUE, discriminator_used |-> FALSE]]

\* the loop over gather's results
batch_results(bs, rs) ==
    [i \in 1..Len(rs) |->
        IF rs[i].state = "exception"
        THEN batch_fallback(bs, i)
        ELSE [corrections |-> rs[i].corrections, metadata |-> rs[i].metadata]]

BIdle ==
    /\ bpc = "idle"
    /\ correction_batches = <<>>
    /\ original_texts = [given |-> FALSE, n |-> 0]
    /\ batch_reply = <<>>
    /\ task_result = <<>>
    /\ filtered_results = <<>>

\* batch_validate(correction_batches, original_texts) is called
BInit ==
    /\ bpc = "called"
    /\ correction_batches \in UNION {[1..k -> CorrectionLists] : k \in 0..MaxBatches}
    /\ original_texts \in
         {[given |-> FALSE, n |-> 0]}
         \cup {[given |-> TRUE, n |-> k] : k \in 0..MaxBatches}
    /\ batch_reply = <<>>
    /\ task_result = <<>>
    /\ filtered_results = <<>>

\* batch_validate up to the await of gather: one filter_corrections task per
\* (corrections, text) pair
batch_validate ==
    /\ bpc = "called"
    /\ bpc' = "gather"
    /\ LET n == TaskCount(correction_batches, original_texts) IN
         /\ batch_reply' = [i \in 1..n |-> NoReply]
         /\ task_result' = [i \in 1..n |-> PendingTask]
    /\ UNCHANGED <<correction_batches, original_texts, filtered_results>>
    /\ UNCHANGED not_bvars

\* The discriminator call of task i is answered: the task runs the rest of
\* validate_corrections and of filter_corrections and ends
batch_task_settle(i) ==
    /\ bpc = "gather"
    /\ task_result[i].state = "pending"
    /\ \E rp \in BatchReplies(correction_batches[i]) :
         /\ batch_reply' = [batch_reply EXCEPT ![i] = rp]
         /\ task_result' =
              [task_result EXCEPT ![i] = TaskOutcome(correction_batches[i], rp)]
    /\ UNCHANGED <<bpc, correction_batches, original_texts, filtered_results>>
    /\ UNCHANGED not_bvars

\* batch_validate after the gather: exceptions replaced, list returned
batch_validate_return ==
    /\ bpc = "gather"
    /\ \A i \in 1..Len(task_result) : task_result[i].state # "pending"
    /\ filtered_results' = batch_results(correction_batches, task_result)
    /\ bpc' = "returned"
    /\ UNCHANGED <<correction_batches, original_texts, batch_reply, task_result>>
    /\ UNCHANGED not_bvars

BNext ==
    \/ batch_validate
    \/ \E i \in 1..Len(task_result) : batch_task_settle(i)
    \/ batch_validate_return


\* ========================================================= process_sections
\* parameters WordGrammarChecker.__init__ declares
InitParams ==
    {"api_key", "system_prompt", "max_concurrent_requests", "n_responses",
     "chosen_model"}

\* arguments process_sections passes to the constructor
CallArgs ==
    {"api_key", "system_prompt", "n_responses", "chosen_model",
     "use_discriminator"}

\* a call with an argument the function does not declare is a TypeError
call_raises(args, params) == ~(args \subseteq params)

TextShapes == {"empty", "blank", "text"}
\* text_for_corrections.strip() is empty
strip_empty(text) == text \in {"empty", "blank"}

NoChecker == [constructed |-> FALSE, n_responses |-> 0, chosen_model |-> "none",
              use_discriminator |-> FALSE]
NoRequest == [session_ok |-> FALSE, selected_titles |-> 0,
              text_for_corrections |-> "empty", n_responses |-> 0,
              selected_model |-> "none"]

AIdle ==
    /\ apc = "idle"
    /\ data = NoRequest
    /\ status = 0
    /\ checker = NoChecker

\* a request reaches process_sections
AInit ==
    /\ apc = "called"
    /\ data \in [session_ok : BOOLEAN,
                 selected_titles : 0..MaxTitles,
                 text_for_corrections : TextShapes,
                 n_responses : 0..MaxK,
                 selected_model : {"fast", "slow", "other"}]
    /\ status = 0
    /\ checker = NoChecker

\* the session and the emptiness checks
process_sections_check ==
    /\ apc = "called"
    /\ IF ~data.session_ok
       THEN apc' = "done" /\ status' = 401
       ELSE IF data.selected_titles = 0 \/ strip_empty(data.text_for_corrections)
       THEN apc' = "done" /\ status' = 400
       ELSE apc' = "checked" /\ status' = status
    /\ UNCHANGED <<data, checker>>
    /\ UNCHANGED not_avars

\* checker = WordGrammarChecker(...): the call is outside the try block, so
\* its exception leaves the handler and the server answers 500; otherwise the
\* handler goes on to process_text
process_sections_construct ==
    /\ apc = "checked"
    /\ IF call_raises(CallArgs, InitParams)
       THEN /\ apc' = "done"
            /\ status' = 500
            /\ checker' = checker
       ELSE /\ apc' = "constructed"
            /\ status' = status
            /\ checker' = [constructed |-> TRUE,
                           n_responses |-> data.n_responses,
                           chosen_model |-> data.selected_model,
                           use_discriminator |-> "use_discriminator" \in CallArgs]
    /\ UNCHANGED data
    /\ UNCHANGED not_avars

ANext ==
    \/ process_sections_check
    \/ process_sections_construct


\* ================================================= overlapping process_text
\* Two process_text runs on one checker. The oracle's answers play no part
\* here: a call settles, by a response or an exception, and that is all.
Invocations == {1, 2}
Texts == {"text_a", "text_b"}
Models == {"fast", "slow", "other"}

\* create_payload: the model and its roles from self.chosen_model, the text
\* from self.text_data
create_payload(model, text) ==
    IF model = "slow"
    THEN [model |-> "o3-mini", system_role_key |-> "developer",
          reasoning_effort |-> "high", text |-> text]
    ELSE [model |-> "gpt-4o", system_role_key |-> "system",
          reasoning_effort |-> "none", text |-> text]

NoPayloadYet == [model |-> "none", system_role_key |-> "none",
                 reasoning_effort |-> "none", text |-> "none"]

\* the payload a call of run v sends: the one process_text built and passed
\* to make_api_call
request_payloadMutLate(v) == create_payload(chosen_model, text_data)
request_payload(v) == invocation[v].payload

OIdle ==
    /\ chosen_model = "fast"
    /\ text_data = ""
    /\ instance = [n_responses |-> 0, max_concurrent_requests |-> 1,
                   semaphore |-> 1, waiters |-> <<>>]
    /\ invocation = <<>>
    /\ requests = <<>>

\* the checker is constructed; two runs are about to be made on it
OInit ==
    /\ chosen_model \in Models
    /\ text_data = ""
    /\ \E n \in 1..MaxOverlapN, k \in 1..MaxK :
         instance = [n_responses |-> n, max_concurrent_requests |-> k,
                     semaphore |-> k, waiters |-> <<>>]
    /\ \E t \in [Invocations -> Texts] :
         invocation = [v \in Invocations |->
                          [pc |-> "none", text |-> t[v], payload |-> NoPayloadYet,
                           call |-> <<>>]]
    /\ requests = <<>>

OSlots == 1..instance.n_responses

\* a request as logged: whose it is, what it carries, and what self.text_data
\* held at the moment it was sent
Sent(v, i) ==
    [invocation |-> v, slot |-> i, payload |-> request_payload(v),
     text_data |-> text_data]

\* process_text of run v up to the await of gather: text_data is set, the
\* payload built from it, the coroutines created, with no await in between
process_text_of(v) ==
    /\ invocation[v].pc = "none"
    /\ text_data' = invocation[v].text
    /\ invocation' = [invocation EXCEPT
                        ![v].pc = "gather",
                        ![v].payload = create_payload(chosen_model, text_data'),
                        ![v].call = [i \in OSlots |-> "created"]]
    /\ UNCHANGED <<chosen_model, instance, requests>>
    /\ UNCHANGED not_ovars

\* first step of the task of slot i of run v: it takes a permit and sends
\* its request, or queues
make_api_call_start_of(v, i) ==
    /\ invocation[v].pc = "gather"
    /\ invocation[v].call[i] = "created"
    /\ \A j \in OSlots : j < i => invocation[v].call[j] # "created"
    /\ IF SemFree(instance.semaphore)
       THEN /\ instance' = [instance EXCEPT !.semaphore = @ - 1]
            /\ invocation' = [invocation EXCEPT ![v].call[i] = "inflight"]
            /\ requests' = Append(requests, Sent(v, i))
       ELSE /\ instance' = [instance EXCEPT !.waiters = Append(@, <<v, i>>)]
            /\ invocation' = [invocation EXCEPT ![v].call[i] = "waiting"]
            /\ UNCHANGED requests
    /\ UNCHANGED <<chosen_model, text_data>>
    /\ UNCHANGED not_ovars

\* the first queued task takes a freed permit and sends its request
make_api_call_resume_of ==
    /\ instance.waiters # <<>>
    /\ SemFree(instance.semaphore)
    /\ LET w == Head(instance.waiters) IN
         /\ invocation' = [invocation EXCEPT ![w[1]].call[w[2]] = "inflight"]
         /\ requests' = Append(requests, Sent(w[1], w[2]))
    /\ instance' = [instance EXCEPT !.semaphore = @ - 1, !.waiters = Tail(@)]
    /\ UNCHANGED <<chosen_model, text_data>>
    /\ UNCHANGED not_ovars

\* the call of slot i of run v settles and its permit is released
make_api_call_settle_of(v, i) ==
    /\ invocation[v].pc = "gather"
    /\ invocation[v].call[i] = "inflight"
    /\ invocation' = [invocation EXCEPT ![v].call[i] = "settled"]
    /\ instance' = [instance EXCEPT !.semaphore = @ + 1]
    /\ UNCHANGED <<chosen_model, text_data, requests>>
    /\ UNCHANGED not_ovars

\* the gather of run v completes and process_text goes on to its end
process_text_join_of(v) ==
    /\ invocation[v].pc = "gather"
    /\ \A i \in OSlots : invocation[v].call[i] = "settled"
    /\ invocation' = [invocation EXCEPT ![v].pc = "done"]
    /\ UNCHANGED <<chosen_model, text_data, instance, requests>>
    /\ UNCHANGED not_ovars

ONext ==
    \/ \E v \in Invocations : process_text_of(v)
    \/ \E v \in Invocations, i \in OSlots : make_api_call_start_of(v, i)
    \/ make_api_call_resume_of
    \/ \E v \in Invocations, i \in OSlots : make_api_call_settle_of(v, i)
    \/ \E v \in Invocations : process_text_join_of(v)

\* ------------------------------------------------------------------- Init
PInit ==
    /\ n_responses \in 0..MaxN
    /\ max_concurrent_requests \in 1..MaxK
    /\ semaphore = max_concurrent_requests
    /\ waiters = <<>>
    /\ call = [i \in 1..n_responses |-> "none"]
    /\ returned = [i \in 1..n_responses |-> Pending]
    /\ order = <<>>
    /\ pc = "constructed"
    /\ responses = <<>>
    /\ results_per_response = <<>>
    /\ output = <<>>

Init == PInit /\ FIdle /\ XIdle /\ BIdle /\ AIdle /\ OIdle

\* ---------------------------------------------------------------- actions
\* process_text up to the await of gather: one coroutine per response
process_text ==
    /\ pc = "constructed"
    /\ pc' = "gather"
    /\ call' = [i \in Slots |-> "created"]
    /\ UNCHANGED <<n_responses, max_concurrent_requests, semaphore, waiters,
                   returned, order, responses, results_per_response, output>>
    /\ UNCHANGED not_pvars

\* First step of the task of slot i: tasks start in creation order; the task
\* enters the semaphore and issues the call, or queues behind it.
make_api_call_start(i) ==
    /\ pc = "gather"
    /\ call[i] = "created"
    /\ \A j \in Slots : j < i => call[j] # "created"
    /\ IF SemFree(semaphore)
       THEN /\ semaphore' = semaphore - 1
            /\ call' = [call EXCEPT ![i] = "inflight"]
            /\ UNCHANGED waiters
       ELSE /\ call' = [call EXCEPT ![i] = "waiting"]
            /\ waiters' = Append(waiters, i)
            /\ UNCHANGED semaphore
    /\ UNCHANGED <<n_responses, max_concurrent_requests, returned, order, pc,
                   responses, results_per_response, output>>
    /\ UNCHANGED not_pvars

\* A queued task is woken by a release, takes the permit and issues its call
make_api_call_resume ==
    /\ pc = "gather"
    /\ waiters # <<>>
    /\ SemFree(semaphore)
    /\ semaphore' = semaphore - 1
    /\ call' = [call EXCEPT ![Head(waiters)] = "inflight"]
    /\ waiters' = Tail(waiters)
    /\ UNCHANGED <<n_responses, max_concurrent_requests, returned, order, pc,
                   responses, results_per_response, output>>
    /\ UNCHANGED not_pvars

\* The oracle answers the call of slot i: the response is returned and the
\* permit released on leaving the async with block
make_api_call_return(i) ==
    /\ pc = "gather"
    /\ call[i] = "inflight"
    /\ \E c \in OracleContents : returned' = [returned EXCEPT ![i] = Response(i, c)]
    /\ call' = [call EXCEPT ![i] = "settled"]
    /\ semaphore' = semaphore + 1
    /\ order' = Append(order, i)
    /\ UNCHANGED <<n_responses, max_concurrent_requests, waiters, pc,
                   responses, results_per_response, output>>
    /\ UNCHANGED not_pvars

\* The oracle call of slot i raises: the exception is logged, None returned,
\* the permit released
make_api_call_exceptMutRetry(i) ==
    /\ pc = "gather"
    /\ call[i] = "inflight"
    /\ order' = Append(order, i)
    /\ IF \E k \in 1..Len(order) : order[k] = i
       THEN /\ returned' = [returned EXCEPT ![i] = None]
            /\ call' = [call EXCEPT ![i] = "settled"]
            /\ semaphore' = semaphore + 1
       ELSE UNCHANGED <<returned, call, semaphore>>
    /\ UNCHANGED <<n_responses, max_concurrent_requests, waiters, pc,
                   responses, results_per_response, output>>
    /\ UNCHANGED not_pvars
make_api_call_exceptMutLeak(i) ==
    /\ pc = "gather"
    /\ call[i] = "inflight"
    /\ returned' = [returned EXCEPT ![i] = None]
    /\ call' = [call EXCEPT ![i] = "settled"]
    /\ order' = Append(order, i)
    /\ UNCHANGED <<n_responses, max_concurrent_requests, semaphore, waiters, pc,
                   responses, results_per_response, output>>
    /\ UNCHANGED not_pvars
make_api_call_except(i) ==
    /\ pc = "gather"
    /\ call[i] = "inflight"
    /\ returned' = [returned EXCEPT ![i] = None]
    /\ call' = [call EXCEPT ![i] = "settled"]
    /\ semaphore' = semaphore + 1
    /\ order' = Append(order, i)
    /\ UNCHANGED <<n_responses, max_concurrent_requests, waiters, pc,
                   responses, results_per_response, output>>
    /\ UNCHANGED not_pvars

\* process_text after the gather: compaction, then extraction per response.
\* An exception of extract_corrections leaves process_text.
process_text_join ==
    /\ pc = "gather"
    /\ GatherDone
    /\ LET rs == Compact(Gathered) IN
         /\ responses' = rs
         /\ IF \E k \in 1..Len(rs) : extract_raises(rs[k])
            THEN /\ pc' = "raised"
                 /\ UNCHANGED results_per_response
            ELSE /\ pc' = "returned"
                 /\ results_per_response' =
                        [k \in 1..Len(rs) |-> extract_corrections(rs[k])]
    /\ UNCHANGED <<n_responses, max_concurrent_requests, semaphore, waiters,
                   call, returned, order, output>>
    /\ UNCHANGED not_pvars

\* process_sections after process_text: the numbered results, or HTTP 500
process_sections_respond ==
    /\ pc \in {"returned", "raised"}
    /\ IF pc = "returned"
       THEN /\ output' = Enumerate(results_per_response)
            /\ pc' = "http_200"
       ELSE /\ pc' = "http_500"
            /\ UNCHANGED output
    /\ UNCHANGED <<n_responses, max_concurrent_requests, semaphore, waiters,
                   call, returned, order, responses, results_per_response>>
    /\ UNCHANGED not_pvars

Next ==
    \/ process_text
    \/ \E i \in Slots : make_api_call_start(i)
    \/ make_api_call_resume
    \/ \E i \in Slots : make_api_call_return(i)
    \/ \E i \in Slots : make_api_call_except(i)
    \/ process_text_join
    \/ process_sections_respond

Spec == Init /\ [][Next]_vars

\* The event loop runs every task that is ready, and every oracle call that
\* was issued settles, by a response or by an exception
Fairness ==
    /\ WF_vars(process_text)
    /\ \A i \in 1..MaxN : WF_vars(i \in Slots /\ make_api_call_start(i))
    /\ WF_vars(make_api_call_resume)
    /\ \A i \in 1..MaxN :
          WF_vars(i \in Slots /\ (make_api_call_return(i) \/ make_api_call_except(i)))
    /\ WF_vars(process_text_join)
    /\ WF_vars(process_sections_respond)

SpecLive == Init /\ [][Next]_vars /\ Fairness

\* filter_corrections on its own, the checker idle
PIdle ==
    /\ n_responses = 0
    /\ max_concurrent_requests = 1
    /\ semaphore = 1
    /\ waiters = <<>>
    /\ call = <<>>
    /\ returned = <<>>
    /\ order = <<>>
    /\ pc = "idle"
    /\ responses = <<>>
    /\ results_per_response = <<>>
    /\ output = <<>>

InitFilter == PIdle /\ FInit /\ XIdle /\ BIdle /\ AIdle /\ OIdle

SpecFilter == InitFilter /\ [][FNext]_vars

\* extract_corrections on its own
InitExtract == PIdle /\ FIdle /\ XInit /\ BIdle /\ AIdle /\ OIdle

SpecExtract == InitExtract /\ [][XNext]_vars

\* batch_validate on its own
InitBatch == PIdle /\ FIdle /\ XIdle /\ BInit /\ AIdle /\ OIdle

SpecBatch == InitBatch /\ [][BNext]_vars

\* process_sections from the request to the construction of the checker
InitApp == PIdle /\ FIdle /\ XIdle /\ BIdle /\ AInit /\ OIdle

SpecApp == InitApp /\ [][ANext]_vars

\* two overlapping process_text runs on one checker
InitOverlap == PIdle /\ FIdle /\ XIdle /\ BIdle /\ AIdle /\ OInit

SpecOverlap == InitOverlap /\ [][ONext]_vars

\* ================================================================== claims
Failed == {i \in Slots : call[i] = "settled" /\ returned[i] = None}
Succeeded == {i \in Slots : call[i] = "settled" /\ returned[i] # None}
PastJoin == pc \in {"returned", "raised", "http_200", "http_500"}
PosIn(seq, x) == CHOOSE k \in 1..Len(seq) : seq[k] = x

\* C1: at every moment of a process_text run the number of oracle calls in
\* flight is at most the capacity K of the gate, also when N > K.
C1_InFlightBounded == Cardinality(InFlight) <= max_concurrent_requests

\* N > K, K calls in flight and another one queued behind the gate
C1_Witness ==
    /\ n_responses > max_concurrent_requests
    /\ Cardinality(InFlight) = max_concurrent_requests
    /\ waiters # <<>>

\* C3: the result of process_text has exactly one entry per call that
\* succeeded and none for a failed call: N calls with f failures give N - f
\* entries, each the extraction of a response some slot returned.
C3_OneEntryPerSuccess ==
    pc = "returned" =>
        /\ Len(results_per_response) = n_responses - Cardinality(Failed)
        /\ Len(results_per_response) <= n_responses
        /\ Len(responses) = Len(results_per_response)
        /\ \A k \in 1..Len(responses) : responses[k] # None
        /\ \A i \in Succeeded : \E k \in 1..Len(responses) : responses[k] = returned[i]

\* five calls, two of them failed, three entries
C3_Witness ==
    /\ pc = "returned"
    /\ n_responses = 5
    /\ Cardinality(Failed) = 2
    /\ Len(results_per_response) = 3

\* C4: process_text gets past the gather only when every one of the N calls
\* has settled, with no call in flight or queued left behind; and while the
\* gather is pending a failed call never leaves the queued calls stuck: some
\* call is in flight, still to start, or queued with a permit free.
C4_JoinAll ==
    /\ PastJoin =>
        /\ \A i \in Slots : call[i] = "settled"
        /\ Len(order) = n_responses
        /\ InFlight = {}
        /\ waiters = <<>>
    /\ (pc = "gather" /\ ~GatherDone) =>
        \/ InFlight # {}
        \/ \E i \in Slots : call[i] = "created"
        \/ waiters # <<>> /\ semaphore > 0

\* capacity 1, three calls: the first call failed while the other two were
\* queued, both were issued afterwards and succeeded
C4_Witness ==
    /\ pc = "returned"
    /\ max_concurrent_requests = 1
    /\ n_responses = 3
    /\ order = <<1, 2, 3>>
    /\ Failed = {1}
    /\ Succeeded = {2, 3}

\* C5: the entries of the result are in the submission order of their calls,
\* whatever the order in which the calls completed.
C5_SubmissionOrder ==
    pc = "returned" =>
        /\ \A a, b \in 1..Len(responses) :
               a < b => responses[a].id < responses[b].id
        /\ \A k \in 1..Len(responses) :
               results_per_response[k] = extract_corrections(responses[k])

\* slot 2 completed before slot 1, both succeeded, and the result has the
\* answer of slot 1 first
C5_Witness ==
    /\ pc = "returned"
    /\ {1, 2} \subseteq Succeeded
    /\ PosIn(order, 2) < PosIn(order, 1)
    /\ responses[1].id = 1
    /\ responses[2].id = 2

Finished == fpc \in {"returned", "raised"}
CallSucceeded == ~validation_result.error
\* the score filter_corrections compares (0 when the member is absent) is a
\* number below the threshold
ScoreBelow ==
    /\ ~compare_raises(validation_result)
    /\ BelowThreshold(validation_result, min_quality_score)
MaxOf(a, b) == IF a > b THEN a ELSE b

\* C2: when the discriminator oracle call raises, filter_corrections returns
\* exactly the corrections it was given, with the default threshold.
C2_RaiseReturnsInput ==
    (Finished /\ reply.kind = "raise" /\ min_quality_score = DefaultMinQuality) =>
        /\ fpc = "returned"
        /\ filtered = JList(corrections)

\* C7 as claimed: the call succeeded with a score below the threshold and the
\* input list is not empty, so at least one correction is returned.
C7_NonEmptyInput ==
    (Finished /\ CallSucceeded /\ ScoreBelow /\ Len(corrections) > 0) =>
        /\ fpc = "returned"
        /\ filtered.t = "list"
        /\ Len(filtered.l) >= 1

\* C7 as the code has it: the call succeeded with a score below the
\* threshold and the valid_corrections list of the discriminator is not
\* empty, so at least one correction is returned.
C7_NonEmptyValid ==
    (/\ Finished /\ CallSucceeded /\ ScoreBelow
     /\ validation_result.valid_corrections.t = "list"
     /\ Len(validation_result.valid_corrections.l) > 0) =>
        /\ fpc = "returned"
        /\ filtered.t = "list"
        /\ Len(filtered.l) >= 1

\* the discriminator approved one correction with score 40: it is returned
C7_Witness ==
    /\ fpc = "returned"
    /\ CallSucceeded
    /\ validation_result.quality_score = JNum(40)
    /\ validation_result.valid_corrections = JList(<<1>>)
    /\ filtered = JList(<<1>>)

\* C8: with a score below the threshold and original_count > 0 the metadata
\* has filtered_count <= max(1, original_count // 2).
C8_FilteredCountBound ==
    (fpc = "returned" /\ ScoreBelow /\ metadata.original_count > 0) =>
        metadata.filtered_count <= MaxOf(1, metadata.original_count \div 2)

Malformed(rp) ==
    \/ rp.kind \in {"not_json", "non_object"}
    \/ rp.kind = "object" /\ (rp.vc.t = "absent" \/ rp.qs.t = "absent")

\* C9: on a malformed discriminator response filter_corrections returns all
\* the input corrections, unfiltered, with quality_score 50.
C9_MalformedFailsOpen ==
    (fpc = "returned" /\ Malformed(reply)) =>
        /\ filtered = JList(corrections)
        /\ metadata.quality_score = JNum(FallbackQuality)

\* C10: filter_corrections never raises, whatever the discriminator oracle
\* gives.
C10_NeverRaises == fpc # "raised"

\* ------------------------------------------------------ extract_corrections
\* the outputs for which the claim of C11 names the result ([], "")
Unparsable(r) ==
    r.content \in {"None", "no_choices", "null", "not_json", "json_non_object",
                   "props_non_object"}

\* C11: extract_corrections never raises, and on absent output, no choices,
\* null content, content that is no JSON, and JSON that is no object (or
\* whose "properties" is no object) it returns ([], "").
C11_ExtractNeverRaises ==
    /\ xpc # "raised"
    /\ (xpc = "returned" /\ Unparsable(raw)) => extracted = EmptyExtract

WellFormedElement(e) == e \in {"record", "record_nulls"}

\* the payload parses and has an object as "properties", which is not of the
\* fixed schema
SchemaViolation(r) ==
    /\ r.content = "ok"
    /\ \/ r.corrections.t # "list"
       \/ \E k \in 1..Len(r.corrections.l) : ~WellFormedElement(r.corrections.l[k])
       \/ r.suggestion.t # "str"
       \/ r.extra

\* C12: a payload that parses but violates the schema gives ([], ""), so
\* every result holds only well-formed correction records and a string
\* suggestion.
C12_SchemaValidated ==
    xpc = "returned" =>
        /\ SchemaViolation(raw) => extracted = EmptyExtract
        /\ extracted.corrections.t = "list"
        /\ \A k \in 1..Len(extracted.corrections.l) :
               WellFormedElement(extracted.corrections.l[k])
        /\ extracted.suggestion.t = "str"

\* ------------------------------------------------------------ batch_validate
BatchTasks == 1..Len(filtered_results)
TaskRaised(i) ==
    filter_raises(validate_corrections(correction_batches[i], batch_reply[i]),
                  DefaultMinQuality)

\* C13: when the validation of a batch raises, the result of that batch is
\* its own corrections with a metadata of error and discriminator_used =
\* false, and the result of every other batch is what filter_corrections
\* gives for that batch's own corrections and discriminator reply.
C13_BatchIsolation ==
    bpc = "returned" =>
        \A i \in BatchTasks :
            IF TaskRaised(i)
            THEN /\ filtered_results[i].corrections = JList(correction_batches[i])
                 /\ filtered_results[i].metadata =
                        [error |-> TRUE, discriminator_used |-> FALSE]
            ELSE LET vr == validate_corrections(correction_batches[i], batch_reply[i])
                 IN /\ filtered_results[i].corrections =
                           filter_valid(vr, DefaultMinQuality)
                    /\ filtered_results[i].metadata =
                           filter_metadata(correction_batches[i], vr, DefaultMinQuality)

\* two different batches, the second raised and fell back to its own two
\* corrections, the first was approved whole
C13_Witness ==
    /\ bpc = "returned"
    /\ correction_batches = <<(<<1>>), (<<1, 2>>)>>
    /\ Len(filtered_results) = 2
    /\ TaskRaised(2)
    /\ filtered_results[2].corrections = JList(<<1, 2>>)
    /\ ~TaskRaised(1)
    /\ batch_reply[1].qs = JNum(100)
    /\ filtered_results[1].corrections = JList(<<1>>)

\* --------------------------------------------------- filter_corrections, II
\* C14: the corrections filter_corrections returns are a list whose elements
\* all occur in the corrections submitted to it.
C14_SubsetOfInput ==
    fpc = "returned" =>
        /\ filtered.t = "list"
        /\ Range(filtered.l) \subseteq Range(corrections)

\* C15: the quality_score of the returned metadata is a number in 0..100.
C15_ScoreInRange ==
    fpc = "returned" =>
        /\ metadata.quality_score.t = "num"
        /\ metadata.quality_score.n \in 0..100

\* C16: when the discriminator call fails (the call raises or its answer
\* cannot be read, so that validate_corrections takes its except branch),
\* filter_corrections returns, and its metadata has quality_score 50 and the
\* summary of the failure.
C16_FailureRecorded ==
    (Finished /\ (reply.kind \in {"raise", "not_json"} \/ validation_result.error)) =>
        /\ fpc = "returned"
        /\ metadata.quality_score = JNum(FallbackQuality)
        /\ metadata.summary = JStr("Validation failed. Returned all corrections.")

\* the oracle raised on four corrections and the metadata records it
C16_Witness ==
    /\ fpc = "returned"
    /\ reply.kind = "raise"
    /\ Len(corrections) = 4
    /\ metadata.quality_score = JNum(50)
    /\ metadata.summary.t = "str"
    /\ metadata.summary.s # "oracle summary"

\* discriminator_used after a call that succeeded and approved everything
UsedAfterSuccess ==
    filter_metadata(<<>>,
        validate_corrections(<<>>,
            [kind |-> "object", vc |-> JList(<<>>), rc |-> JList(<<>>),
             qs |-> JNum(100), summary |-> JStr("oracle summary")]),
        DefaultMinQuality).discriminator_used

\* C17: after a failed discriminator call the metadata's discriminator_used
\* differs from its value after a successful call.
C17_UsedReflectsFailure ==
    (fpc = "returned" /\ validation_result.error) =>
        metadata.discriminator_used # UsedAfterSuccess

MetadataKeys ==
    {"discriminator_used", "quality_score", "original_count", "filtered_count",
     "rejected_count", "summary", "rejected_reasons"}

\* C18: the metadata filter_corrections returns, and the metadata of every
\* element of the list batch_validate returns, has all seven keys.
C18_SevenKeys ==
    /\ fpc = "returned" => MetadataKeys \subseteq DOMAIN metadata
    /\ bpc = "returned" =>
           \A i \in BatchTasks : MetadataKeys \subseteq DOMAIN filtered_results[i].metadata

\* --------------------------------------------------------- process_sections
\* the request passed the session and the emptiness checks
ValidRequest ==
    /\ data.session_ok
    /\ data.selected_titles >= 1
    /\ data.text_for_corrections = "text"

\* C19: for a valid request the handler gets a checker whose discriminator
\* stage is enabled, through which each response's corrections can be passed.
C19_DiscriminatorStage ==
    (apc = "done" /\ ValidRequest) =>
        /\ checker.constructed
        /\ checker.use_discriminator

\* C20: an authenticated request with at least one selected title and
\* non-blank text is answered with status 200.
C20_ValidRequestSucceeds ==
    (apc = "done" /\ ValidRequest) => status = 200

\* ------------------------------------------------------------ process_text, II
\* the suggestion in the payload of a response ("" when it cannot be read)
SuggestionOf(r) == IF r.content = "ok" THEN r.id ELSE 0

C22_ContractEnforced ==
    n_responses < 1 => pc \notin {"returned", "http_200"}

\* attempts of slot i that have settled so far
Attempts(i) == Cardinality({k \in 1..Len(order) : order[k] = i})

\* C24: every slot makes one attempt at the oracle and no more: a settled
\* slot has settled once, a slot not yet settled never, and past the join the
\* attempts number exactly N.
C24_SingleAttempt ==
    /\ \A i \in Slots : Attempts(i) = IF call[i] = "settled" THEN 1 ELSE 0
    /\ PastJoin => Len(order) = n_responses

\* a run of three slots in which two calls failed and none was tried again
C24_Witness ==
    /\ PastJoin
    /\ n_responses = 3
    /\ Cardinality(Failed) = 2
    /\ Len(order) = 3

\* C29: the free permits stay in 0..K, are K less the calls in flight, and
\* are K again once process_text is over, whatever calls failed.
C29_PermitsReleased ==
    /\ semaphore \in 0..max_concurrent_requests
    /\ semaphore = max_concurrent_requests - Cardinality(InFlight)
    /\ PastJoin => semaphore = max_concurrent_requests

\* more calls than permits, failures and successes mixed, all permits back
C29_Witness ==
    /\ pc = "returned"
    /\ n_responses > max_concurrent_requests
    /\ Failed # {}
    /\ Succeeded # {}
    /\ semaphore = max_concurrent_requests

\* ------------------------------------------------------- batch_validate, II
\* discriminator calls issued and not yet answered
BatchInFlight == {i \in 1..Len(task_result) : task_result[i].state = "pending"}

\* C25: the discriminator calls of batch_validate in flight are bounded by
\* the capacity of a gate: some capacity below the largest number of batches
\* explored is never exceeded.
C25_BatchGated ==
    \E capacity \in 1..(MaxBatches - 1) : Cardinality(BatchInFlight) <= capacity

\* C26: batch_validate returns one result per input batch, whatever list of
\* texts comes with the batches.
C26_OneResultPerBatch ==
    bpc = "returned" => Len(filtered_results) = Len(correction_batches)

\* -------------------------------------------------- filter_corrections, III
\* C27: with V the list of valid corrections of the validation result and a
\* numeric score, filter_corrections returns V when the score is at least the
\* threshold, and otherwise the first min(len(V), max(1, len(V) // 2))
\* elements of V.
C27_ThresholdPolicy ==
    (/\ fpc = "returned"
     /\ validation_result.valid_corrections.t = "list"
     /\ validation_result.quality_score.t = "num") =>
        LET V == validation_result.valid_corrections.l
            score == validation_result.quality_score.n
        IN  IF score >= min_quality_score
            THEN filtered = JList(V)
            ELSE filtered = JList(SubSeq(V, 1, MinOf(Len(V), MaxOf(1, Len(V) \div 2))))

\* three valid corrections, score 40, threshold 70: one correction returned
C27_Witness ==
    /\ fpc = "returned"
    /\ Len(corrections) = 3
    /\ validation_result.valid_corrections = JList(<<1, 2, 3>>)
    /\ validation_result.quality_score = JNum(40)
    /\ min_quality_score = 70
    /\ filtered = JList(<<1>>)

\* ------------------------------------------------- overlapping process_text
Presets == {"fast", "slow"}

\* C23: a checker whose model variant is no recognized preset sends no
\* request to the oracle.
C23_UnknownVariantRejected ==
    chosen_model \notin Presets => requests = <<>>

\* C30: every request sent for a run carries the text of that run.
C30_OwnText ==
    \A k \in 1..Len(requests) :
        requests[k].payload.text = invocation[requests[k].invocation].text

\* a request of run 1 was sent while self.text_data held the other text of
\* run 2, and carried the text of run 1
C30_Witness ==
    /\ invocation[1].text # invocation[2].text
    /\ \E k \in 1..Len(requests) :
         /\ requests[k].invocation = 1
         /\ requests[k].text_data = invocation[2].text
         /\ requests[k].payload.text = invocation[1].text

\* ----------------------------------------------------------------- liveness
\* every call has been issued and has settled
AllIssued == \A i \in Slots : call[i] = "settled"

\* C28: when every issued call settles, all N calls are eventually issued
\* and process_text eventually returns.
C28_EventuallyReturns == <>(AllIssued /\ pc \in {"returned", "http_200"})

\* the part of C28 about the gate alone: the gather eventually completes
\* with all N calls issued and settled
GateLive == <>(AllIssued /\ PastJoin)

====
